---------------------------- MODULE Spec2Model ----------------------------
(***************************************************************************)
(* Verification model of the financial-sentiment-analysis pipeline:        *)
(*   src/src/data_collection.py  adapters, get_financial_news_fast,        *)
(*                               save_news_data, main                      *)
(*   src/src/sentiment.py        analyze_dataframe (both analyzers),       *)
(*                               process_news_data                         *)
(*   src/src/main.py             run_pipeline                              *)
(*                                                                         *)
(* Text is modelled as a sequence of atoms.  An atom is a character        *)
(* ("X", " ") or a whitespace-free chunk of characters ("growth").         *)
(***************************************************************************)
EXTENDS Integers, Sequences, FiniteSets, TLC

(***************************************************************************)
(* Bounds of the model.                                                    *)
(***************************************************************************)
MaxItems == 2          \* items in one provider response
MaxArticles == 2       \* largest max_articles tried in the aggregator
MaxRows == 3           \* rows of a news file given to process_news_data
MaxSaves == 2          \* calls of save_news_data in one history
MaxMinute == 2         \* minutes of a day the clock goes through
MaxDate == 2           \* days the clock goes through
MaxTickers == 2        \* tickers of a batch run

(***************************************************************************)
(* Text: str.lower, str.strip, truthiness.                                 *)
(***************************************************************************)
\* Python None (a JSON null mapped by item.get) and pandas NaN, as texts
\* made of one reserved atom so that they compare with ordinary texts.
NoneTitle == <<"<None>">>
NaN == <<"<NaN>">>

\* str.lower() on one atom
LowerAtom(c) ==
    CASE c = "X" -> "x"
      [] c = "Y" -> "y"
      [] c = "N" -> "n"
      [] c = "A" -> "a"
      [] c = "Profit" -> "profit"
      [] OTHER -> c

\* str.lower()
Lower(s) == [k \in 1..Len(s) |-> LowerAtom(s[k])]

RECURSIVE LStrip(_)
LStrip(s) == IF s # <<>> /\ Head(s) = " " THEN LStrip(Tail(s)) ELSE s

RECURSIVE RStrip(_)
RStrip(s) ==
    IF s # <<>> /\ s[Len(s)] = " " THEN RStrip(SubSeq(s, 1, Len(s) - 1)) ELSE s

\* str.strip()
Strip(s) == RStrip(LStrip(s))

\* item.get('title', '').lower().strip()
NormalizeTitle(t) == Strip(Lower(t))

\* seq[:n] for n >= 0
Take(s, n) == SubSeq(s, 1, IF n < Len(s) THEN n ELSE Len(s))

(***************************************************************************)
(* Inputs of the aggregator.                                               *)
(***************************************************************************)
Tickers == {"AAPL", "MSFT"}

\* apis_to_try, in order
ApiNames == <<"Finnhub", "Alpha Vantage", "MarketAux", "EODHD">>
ApiSet == {ApiNames[k] : k \in 1..Len(ApiNames)}

\* headlines a provider may send
AggTitles == {<<>>, <<"X">>, <<"x">>, <<"x", " ">>, <<"Y">>, NoneTitle}

\* all sequences over S of length at most n
SeqsUpTo(S, n) == UNION {[1..k -> S] : k \in 0..n}

\* an item of a payload that is not a JSON object (a null, a string)
BadItem == <<"<bad>">>

\* the ways a request fails inside the adapter's try block: the connection
\* fails, the 10 s timeout expires, raise_for_status() meets an error
\* status (401 or 403 for a key the provider rejects), response.json()
\* meets a body that is not JSON
FailureKinds ==
    {"network_error", "timeout", "http_error", "unauthorized", "malformed"}

\* A provider's answer to one request: "ok" carries the items of the
\* payload, a failure kind is one of the above, "fault" is an exception
\* that escapes the adapter.
Responses ==
    {[kind |-> "ok", items |-> its] :
        its \in SeqsUpTo(AggTitles \cup {BadItem}, MaxItems)}
    \cup {[kind |-> k, items |-> <<>>] : k \in FailureKinds \cup {"fault"}}

\* The answers tried in a call of get_financial_news_fast: a payload whose
\* items map, one kind of failure the adapter contains, and an exception
\* that escapes the adapter.
AggResponses ==
    {r \in Responses :
        /\ r.kind \in {"ok", "timeout", "fault"}
        /\ \A k \in 1..Len(r.items) : r.items[k] # BadItem}

\* no request is made
NoResponse == [kind |-> "none", items |-> <<>>]

(***************************************************************************)
(* FastNewsCollector: the four adapters.                                   *)
(***************************************************************************)
\* the dict built for one item
NewsRecord(ticker, title, source) ==
    [ticker |-> ticker, title |-> title, source |-> source]

MapItems(api, ticker, items) ==
    [k \in 1..Len(items) |-> NewsRecord(ticker, items[k], api)]

\* item.get(...) on an item that is not a JSON object raises
IsMappable(item) == item # BadItem

\* The loop that maps the items, inside the try block: an item that does
\* not map raises, and the except clause of the adapter returns [].
MapResponse(api, ticker, items) ==
    IF \E k \in 1..Len(items) : ~IsMappable(items[k]) THEN <<>>
    ELSE MapItems(api, ticker, items)

get_finnhub_news(ticker, max_articles, hasKey, resp) ==
    IF ~hasKey THEN <<>>
    ELSE IF resp.kind # "ok" THEN <<>>
    ELSE MapResponse("Finnhub", ticker, Take(resp.items, max_articles))

get_alpha_vantage_news(ticker, max_articles, hasKey, resp) ==
    IF ~hasKey THEN <<>>
    ELSE IF resp.kind # "ok" THEN <<>>
    ELSE MapResponse("Alpha Vantage", ticker, resp.items)

get_marketaux_news(ticker, max_articles, hasKey, resp) ==
    IF ~hasKey THEN <<>>
    ELSE IF resp.kind # "ok" THEN <<>>
    ELSE MapResponse("MarketAux", ticker, resp.items)

get_eodhd_news(ticker, max_articles, hasKey, resp) ==
    IF ~hasKey THEN <<>>
    ELSE IF resp.kind # "ok" THEN <<>>
    ELSE MapResponse("EODHD", ticker, resp.items)

\* AdapterRaises for adapters without their try/except
AdapterRaises_NoExcept(hasKey, resp) ==
    hasKey /\ resp.kind \in FailureKinds \cup {"fault"}

\* whether api_func(ticker, max_articles) raises: every exception of the
\* request, of the parsing and of the mapping is caught inside the adapter
AdapterRaises(hasKey, resp) == hasKey /\ resp.kind = "fault"

\* whether the adapter sends a request: not without its API key
AdapterRequests(hasKey) == hasKey

\* api_func(ticker, max_articles) for the entry `api` of apis_to_try
ApiFunc(api, ticker, max_articles, keys, resp) ==
    CASE api = "Finnhub" ->
            get_finnhub_news(ticker, max_articles, api \in keys, resp)
      [] api = "Alpha Vantage" ->
            get_alpha_vantage_news(ticker, max_articles, api \in keys, resp)
      [] api = "MarketAux" ->
            get_marketaux_news(ticker, max_articles, api \in keys, resp)
      [] OTHER ->
            get_eodhd_news(ticker, max_articles, api \in keys, resp)

(***************************************************************************)
(* get_financial_news_fast                                                 *)
(***************************************************************************)
\* TryApi with `break` in place of `continue` in the except clause
TryApi_BreakOnFault(api, ticker, max_articles, keys, all, resp) ==
    IF api \in keys /\ resp.kind = "fault"
    THEN [all |-> all, brk |-> TRUE]
    ELSE LET news == ApiFunc(api, ticker, max_articles, keys, resp) IN
         IF news # <<>>
         THEN [all |-> all \o news, brk |-> Len(all \o news) >= max_articles]
         ELSE [all |-> all, brk |-> FALSE]

\* TryApi without the break on len(all_news) >= max_articles
TryApi_NoBreak(api, ticker, max_articles, keys, all, resp) ==
    IF AdapterRaises(api \in keys, resp)
    THEN [all |-> all, brk |-> FALSE]
    ELSE [all |-> all \o ApiFunc(api, ticker, max_articles, keys, resp),
          brk |-> FALSE]

\* One iteration of `for api_name, api_func in apis_to_try`: the records
\* accumulated after it and whether the loop breaks.
TryApi(api, ticker, max_articles, keys, all, resp) ==
    IF AdapterRaises(api \in keys, resp)
    THEN [all |-> all, brk |-> FALSE]
    ELSE LET news == ApiFunc(api, ticker, max_articles, keys, resp) IN
         IF news # <<>>
         THEN [all |-> all \o news, brk |-> Len(all \o news) >= max_articles]
         ELSE [all |-> all, brk |-> FALSE]

\* the loop over all_news with seen_titles and unique_news
RECURSIVE DedupeLoop(_, _, _, _)
DedupeLoop(all, k, seen_titles, unique) ==
    IF k > Len(all) THEN unique
    ELSE LET title == NormalizeTitle(all[k].title) IN
         IF title # <<>> /\ title \notin seen_titles
         THEN DedupeLoop(all, k + 1, seen_titles \cup {title},
                         Append(unique, all[k]))
         ELSE DedupeLoop(all, k + 1, seen_titles, unique)

\* Dedupe comparing titles without .lower()
RECURSIVE DedupeLoop_CaseSensitive(_, _, _, _)
DedupeLoop_CaseSensitive(all, k, seen_titles, unique) ==
    IF k > Len(all) THEN unique
    ELSE LET title == Strip(all[k].title) IN
         IF title # <<>> /\ title \notin seen_titles
         THEN DedupeLoop_CaseSensitive(all, k + 1, seen_titles \cup {title},
                                       Append(unique, all[k]))
         ELSE DedupeLoop_CaseSensitive(all, k + 1, seen_titles, unique)

Dedupe_CaseSensitive(all) == DedupeLoop_CaseSensitive(all, 1, {}, <<>>)

\* Dedupe whose loop starts at the second record
Dedupe_SkipFirst(all) == DedupeLoop(all, 2, {}, <<>>)

\* Dedupe without the `title and` test
RECURSIVE DedupeLoop_KeepsBlank(_, _, _, _)
DedupeLoop_KeepsBlank(all, k, seen_titles, unique) ==
    IF k > Len(all) THEN unique
    ELSE LET title == NormalizeTitle(all[k].title) IN
         IF title \notin seen_titles
         THEN DedupeLoop_KeepsBlank(all, k + 1, seen_titles \cup {title},
                                    Append(unique, all[k]))
         ELSE DedupeLoop_KeepsBlank(all, k + 1, seen_titles, unique)

Dedupe_KeepsBlank(all) == DedupeLoop_KeepsBlank(all, 1, {}, <<>>)

Dedupe(all) == DedupeLoop(all, 1, {}, <<>>)

\* .lower() on a title that is None raises AttributeError
DedupeRaises(all) == \E k \in 1..Len(all) : all[k].title = NoneTitle

\* ReturnNews without the slice
ReturnNews_NoSlice(unique, max_articles) == unique

\* return unique_news[:max_articles]
ReturnNews(unique, max_articles) == Take(unique, max_articles)

(***************************************************************************)
(* sentiment.py: texts, scorers.  Scores and confidences are in tenths.    *)
(***************************************************************************)
\* Series.fillna('') on one cell
FillNa(t) == IF t = NaN THEN <<>> ELSE t

\* NeedsScoring without .strip()
NeedsScoring_NoStrip(text) == text # <<>>

\* `if text and text.strip()`
NeedsScoring(text) == text # <<>> /\ Strip(text) # <<>>

\* set(text.split()): the whitespace-separated words of a text
RECURSIVE SplitWords(_, _)
SplitWords(s, word) ==
    IF s = <<>> THEN (IF word = <<>> THEN {} ELSE {word})
    ELSE IF Head(s) = " "
         THEN (IF word = <<>> THEN {} ELSE {word}) \cup SplitWords(Tail(s), <<>>)
         ELSE SplitWords(Tail(s), Append(word, Head(s)))

Words(text) == SplitWords(text, <<>>)

\* the entries of positive_words / negative_words that the texts can spell
positive_words == {<<"growth">>, <<"profit">>}
negative_words == {<<"loss">>}

Min(a, b) == IF a < b THEN a ELSE b
Max(a, b) == IF a > b THEN a ELSE b
Abs(a) == IF a < 0 THEN -a ELSE a

\* NeutralResult without its 'confidence' key
NeutralResult_NoConfidence ==
    [text |-> <<>>, sentiment |-> "neutral", sentiment_score |-> 0]

\* the fixed result appended for a text that needs no scoring
NeutralResult ==
    [text |-> <<>>, sentiment |-> "neutral", confidence |-> 0,
     sentiment_score |-> 0]

\* LightweightSentimentAnalyzer.analyze_text
LightweightAnalyzeText(text) ==
    LET words == Words(Lower(text))
        positive_count == Cardinality(words \cap positive_words)
        negative_count == Cardinality(words \cap negative_words)
        confidence == Min(9, Abs(positive_count - negative_count) * 3)
    IN IF positive_count > negative_count
       THEN [text |-> text, sentiment |-> "positive", confidence |-> confidence,
             sentiment_score |-> Min(8, positive_count * 2)]
       ELSE IF negative_count > positive_count
       THEN [text |-> text, sentiment |-> "negative", confidence |-> confidence,
             sentiment_score |-> Max(-8, -(negative_count * 2))]
       ELSE [text |-> text, sentiment |-> "neutral", confidence |-> confidence,
             sentiment_score |-> 0]

\* What the chat-completion call does: it answers with a JSON object, it
\* answers with text that is not JSON, or it raises.
ScorerReplies ==
    {[kind |-> "json", sentiment |-> "positive", confidence |-> 9, score |-> 2],
     [kind |-> "json", sentiment |-> "bullish", confidence |-> 15, score |-> 20],
     [kind |-> "text", sentiment |-> "positive", confidence |-> 0, score |-> 0],
     [kind |-> "text", sentiment |-> "negative", confidence |-> 0, score |-> 0],
     [kind |-> "text", sentiment |-> "unclear", confidence |-> 0, score |-> 0],
     [kind |-> "error", sentiment |-> "", confidence |-> 0, score |-> 0]}

\* SentimentAnalyzer._fallback_analysis
FallbackAnalysis(text, reply) ==
    IF reply.sentiment = "positive"
    THEN [text |-> text, sentiment |-> "positive", confidence |-> 5,
          sentiment_score |-> 5]
    ELSE IF reply.sentiment = "negative"
    THEN [text |-> text, sentiment |-> "negative", confidence |-> 5,
          sentiment_score |-> -5]
    ELSE [text |-> text, sentiment |-> "neutral", confidence |-> 5,
          sentiment_score |-> 0]

\* SentimentAnalyzer.analyze_text
OpenAIAnalyzeText(text, reply) ==
    CASE reply.kind = "json" ->
            [text |-> text, sentiment |-> reply.sentiment,
             confidence |-> reply.confidence, sentiment_score |-> reply.score]
      [] reply.kind = "text" -> FallbackAnalysis(text, reply)
      [] OTHER ->
            [text |-> text, sentiment |-> "neutral", confidence |-> 0,
             sentiment_score |-> 0]

(***************************************************************************)
(* pandas: the cells of a news file and the per-ticker aggregation.        *)
(***************************************************************************)
\* the strings read_csv takes for a missing value, among those the texts
\* can spell
NaValues == {<<>>, <<"N", "A">>}

\* read_csv on one cell
ReadCsvCell(field) == IF field \in NaValues THEN NaN ELSE field

\* to_csv on one cell: a missing value is written as an empty field
WriteCsvCell(value) == IF value \in {NaN, NoneTitle} THEN <<>> ELSE value

\* pd.read_csv on the data rows of a news file
ReadCsv(rows) ==
    [k \in 1..Len(rows) |-> [rows[k] EXCEPT !.title = ReadCsvCell(@)]]

\* DataFrame.to_csv on the records of news_data
WriteCsv(news_data) ==
    [k \in 1..Len(news_data) |->
        [news_data[k] EXCEPT !.title = WriteCsvCell(@)]]

\* pd.concat([df, sentiment_df], axis=1) on one row, then the drop of the
\* 'text' column: the row's own columns followed by those of its result
ConcatRow(row, res) ==
    [c \in DOMAIN row \cup (DOMAIN res \ {"text"}) |->
        IF c \in DOMAIN res THEN res[c] ELSE row[c]]

\* result_df of analyze_dataframe: both frames have the index 0..n-1
ConcatResults(df, results) ==
    [k \in 1..Len(df) |-> ConcatRow(df[k], results[k])]

RECURSIVE SumScores(_, _)
SumScores(results, K) ==
    IF K = {} THEN 0
    ELSE LET k == CHOOSE j \in K : TRUE
         IN results[k].sentiment_score + SumScores(results, K \ {k})

\* result_df.groupby('ticker').agg({'sentiment_score': 'mean', 'title': 'count'})
\* the mean is the pair score_sum / score_count
GroupByTicker(df, results) ==
    LET groups == {df[k].ticker : k \in 1..Len(df)}
        rowsOf(t) == {k \in 1..Len(df) : df[k].ticker = t}
    IN [t \in groups |->
          [score_sum |-> SumScores(results, rowsOf(t)),
           score_count |-> Cardinality(rowsOf(t)),
           article_count |->
               Cardinality({k \in rowsOf(t) : df[k].title # NaN})]]

\* the title cells a news file may hold
FileTitles ==
    {<<>>, <<" ">>, <<"growth">>, <<"loss">>, <<"Profit", " ", "growth">>}

\* the rows a news file may hold: every title for one ticker, a missing
\* and a scored title for the other
FileRows ==
    [ticker : {"AAPL"}, title : FileTitles]
    \cup [ticker : {"MSFT"}, title : {<<>>, <<"growth">>}]

(***************************************************************************)
(* save_news_data.  A file name is <<date, minute>>; minute 0 names the    *)
(* file of the date, data/financial_news_YYYYMMDD.csv, and a minute m > 0  *)
(* names data/financial_news_YYYYMMDD_HHMM.csv.  A file is its header flag, *)
(* the columns of its header line, its data rows and the columns each row  *)
(* was written with.                                                       *)
(***************************************************************************)
NoFile == <<0, 0>>

\* today_file and filename at the time `now`
TodayFile(now) == <<now[1], 0>>
MinuteFile(now) == now

\* the keys of the dict every adapter builds, in the order of the literal
BaseColumns ==
    <<"ticker", "title", "summary", "url", "published", "source",
      "retrieved_date">>

\* the two keys only get_alpha_vantage_news adds
AlphaVantageColumns == <<"overall_sentiment_score", "overall_sentiment_label">>

\* the keys of one record; `source` names the adapter that built it
RecordColumns(r) ==
    IF r.source = "Alpha Vantage" THEN BaseColumns \o AlphaVantageColumns
    ELSE BaseColumns

\* the columns of pd.DataFrame(news_data): the keys of the dicts in the
\* order of their first appearance
FrameColumns(news_data) ==
    IF \E k \in 1..Len(news_data) : news_data[k].source = "Alpha Vantage"
    THEN BaseColumns \o AlphaVantageColumns
    ELSE BaseColumns

\* open(name, 'w') and a complete write, header first: the header line
\* holds the frame's columns and every row has one field per column
CreateFile(fs, name, cols, rows) ==
    [f \in DOMAIN fs \cup {name} |->
        IF f = name
        THEN [header |-> TRUE, columns |-> cols, rows |-> rows,
              row_columns |-> [k \in 1..Len(rows) |-> cols]]
        ELSE fs[f]]

\* open(name, 'a') and a complete write, no header: the rows have one
\* field per column of the frame, whatever the header of the file
AppendFile(fs, name, cols, rows) ==
    [fs EXCEPT ![name] =
        [header |-> @.header, columns |-> @.columns, rows |-> @.rows \o rows,
         row_columns |-> @.row_columns \o [k \in 1..Len(rows) |-> cols]]]

\* save_news_data(news_data) when every write succeeds: the files after
\* the call, the returned file name and the mode the file was opened in
SaveNewsData(fs, now, news_data) ==
    IF news_data = <<>>
    THEN [files |-> fs, ret |-> NoFile, mode |-> "none"]
    ELSE IF TodayFile(now) \in DOMAIN fs
    THEN [files |-> AppendFile(fs, TodayFile(now), FrameColumns(news_data),
                               WriteCsv(news_data)),
          ret |-> TodayFile(now), mode |-> "a"]
    ELSE [files |-> CreateFile(fs, MinuteFile(now), FrameColumns(news_data),
                               WriteCsv(news_data)),
          ret |-> MinuteFile(now), mode |-> "w"]

\* save_news_data(news_data) when to_csv raises after `cut` rows: the open
\* failed (nothing changes) or the write stopped part-way
SaveNewsDataFailing(fs, now, news_data, opened, cut) ==
    IF ~opened THEN fs
    ELSE IF TodayFile(now) \in DOMAIN fs
    THEN AppendFile(fs, TodayFile(now), FrameColumns(news_data),
                    WriteCsv(Take(news_data, cut)))
    ELSE CreateFile(fs, MinuteFile(now), FrameColumns(news_data),
                    WriteCsv(Take(news_data, cut)))

\* the records given to save_news_data
SaveRecords ==
    {NewsRecord("AAPL", <<"X">>, "Finnhub"),
     NewsRecord("AAPL", <<"x", " ">>, "EODHD"),
     NewsRecord("MSFT", <<"N", "A">>, "Finnhub"),
     NewsRecord("AAPL", <<"Y">>, "Alpha Vantage")}

(***************************************************************************)
(* The batch entry points: data_collection.main and main.run_pipeline.     *)
(***************************************************************************)
\* the built-in ticker list
DefaultTickers == <<"AAPL", "MSFT", "GOOGL", "AMZN", "TSLA", "NVDA", "META">>

\* max_articles passed by data_collection.main
MainMaxArticles == 5

\* what the price source does: bars, no data, or an exception
StockOutcomes == {"bars", "empty", "error"}

\* get_stock_data: an exception is caught and an empty frame returned
GetStockData(outcome) == IF outcome = "bars" THEN "bars" ELSE "empty"

\* the sets of configured API keys tried in a batch run: none, one or two
\* of the adapters have a key
BatchKeySets == SUBSET {"Finnhub", "MarketAux"}

\* the provider answers tried in a batch run
BatchResponses ==
    {[kind |-> "ok", items |-> <<>>],
     [kind |-> "ok", items |-> <<<<"x", " ">>, <<"Y">>>>],
     [kind |-> "ok", items |-> <<NoneTitle>>],
     [kind |-> "unauthorized", items |-> <<>>]}

\* every way the four providers may answer during one call; an adapter
\* that has no key sends no request and gets no answer
BatchAnswers == [1..Len(ApiNames) -> BatchResponses \cup {NoResponse}]

AnswersTo(keys) ==
    {resps \in BatchAnswers :
        \A i \in 1..Len(ApiNames) :
           resps[i] = NoResponse <=> ~AdapterRequests(ApiNames[i] \in keys)}

\* the loop of get_financial_news_fast from adapter i on
RECURSIVE AggLoop(_, _, _, _, _, _)
AggLoop(i, all, t, max, keys, resps) ==
    IF i > Len(ApiNames) THEN all
    ELSE LET r == TryApi(ApiNames[i], t, max, keys, all, resps[i]) IN
         IF r.brk THEN r.all
         ELSE AggLoop(i + 1, r.all, t, max, keys, resps)

\* the adapters that loop calls, as indices of apis_to_try
RECURSIVE AggCalled(_, _, _, _, _, _)
AggCalled(i, all, t, max, keys, resps) ==
    IF i > Len(ApiNames) THEN {}
    ELSE LET r == TryApi(ApiNames[i], t, max, keys, all, resps[i]) IN
         IF r.brk THEN {i}
         ELSE {i} \cup AggCalled(i + 1, r.all, t, max, keys, resps)

\* get_financial_news_fast(t, max) as one call: whether it raises, the
\* list it returns, the adapters that sent a request and those whose
\* request the provider rejected with 401
GetFinancialNewsFast(t, max, keys, resps) ==
    LET all == AggLoop(1, <<>>, t, max, keys, resps)
        called == AggCalled(1, <<>>, t, max, keys, resps)
        requested == {ApiNames[i] : i \in {j \in called :
                                        AdapterRequests(ApiNames[j] \in keys)}}
        rejected == {ApiNames[i] : i \in {j \in called :
                        /\ AdapterRequests(ApiNames[j] \in keys)
                        /\ resps[j].kind = "unauthorized"}}
    IN IF DedupeRaises(all)
       THEN [raised |-> TRUE, news |-> <<>>, requested |-> requested,
             rejected |-> rejected]
       ELSE [raised |-> FALSE, news |-> ReturnNews(Dedupe(all), max),
             requested |-> requested, rejected |-> rejected]

\* What the run knows of an adapter after one more call of
\* get_financial_news_fast: "unused" (no request sent yet), "ok" (requests
\* sent, none rejected), "unauthenticated" (its request was rejected),
\* "retried" (a request sent after a rejected one).  The adapters keep no
\* state between calls: each call tests only the presence of the key.
AuthAfter(auth_before, n) ==
    [a \in ApiSet |->
        IF a \notin n.requested THEN auth_before[a]
        ELSE IF auth_before[a] \in {"unauthenticated", "retried"} THEN "retried"
        ELSE IF a \in n.rejected THEN "unauthenticated"
        ELSE "ok"]

(***************************************************************************)
(* State.                                                                  *)
(***************************************************************************)
VARIABLES
    pc,            \* position of the running entry point
    api_keys,      \* providers whose API key is configured
    ticker,        \* get_financial_news_fast: argument
    max_articles,  \* get_financial_news_fast: argument
    idx,           \* get_financial_news_fast: position in apis_to_try
    all_news,      \* get_financial_news_fast: accumulated records
    unique_news,   \* get_financial_news_fast: records kept by the dedup loop
    result,        \* get_financial_news_fast: returned list
    calls,         \* get_financial_news_fast: adapter calls made so far
    analyzer,      \* process_news_data: the analyzer chosen
    df,            \* process_news_data: the frame read from news_file
    results,       \* analyze_dataframe: the results list
    scorer_calls,  \* analyze_dataframe: the calls of analyze_text made
    ticker_sentiment,  \* process_news_data: the per-ticker summary
    files,         \* the news files of the data directory
    clock,         \* datetime.now(): <<date, minute>>
    saves,         \* the calls of save_news_data made so far
    entry,         \* the batch entry point that runs
    tickers,       \* batch: the ticker list
    done_tickers,  \* batch: number of tickers whose iteration completed
    batch_news,    \* batch: all_news of the entry point
    stock_files,   \* batch: tickers whose price file was written
    crash,         \* batch: where an exception left the entry point
    auth,          \* batch: per adapter, its requests and their rejection
    ticker_log,    \* batch: per ticker begun, the two sub-fetches
    stages,        \* batch: the stages run_pipeline entered after the save
    adapter_call,  \* one adapter call: adapter, arguments, key present
    adapter_outcome  \* one adapter call: the answer and what the call did

aggVars == <<api_keys, ticker, max_articles, idx, all_news, unique_news,
             result, calls>>

scoreVars == <<analyzer, df, results, scorer_calls, ticker_sentiment>>

saveVars == <<files, clock, saves>>

batchVars == <<entry, tickers, done_tickers, batch_news, stock_files, crash,
               auth, ticker_log, stages>>

adapterVars == <<adapter_call, adapter_outcome>>

vars == <<pc, aggVars, scoreVars, saveVars, batchVars, adapterVars>>

\* the state of an operation that is not running
AggIdle ==
    /\ api_keys = {}
    /\ ticker = "AAPL"
    /\ max_articles = 0
    /\ idx = 1
    /\ all_news = <<>>
    /\ unique_news = <<>>
    /\ result = <<>>
    /\ calls = <<>>

ScoreIdle ==
    /\ analyzer = "lightweight"
    /\ df = <<>>
    /\ results = <<>>
    /\ scorer_calls = <<>>
    /\ ticker_sentiment = <<>>

SaveIdle ==
    /\ files = <<>>
    /\ clock = <<1, 1>>
    /\ saves = <<>>

AdapterIdle ==
    /\ adapter_call = <<>>
    /\ adapter_outcome = <<>>

BatchIdle ==
    /\ entry = "none"
    /\ tickers = <<>>
    /\ done_tickers = 0
    /\ batch_news = <<>>
    /\ stock_files = {}
    /\ crash = "none"
    /\ auth = <<>>
    /\ ticker_log = <<>>
    /\ stages = <<>>

(***************************************************************************)
(* Specification of one call of one adapter.                               *)
(***************************************************************************)
InitAdapter ==
    /\ pc = "fetch"
    /\ AggIdle
    /\ ScoreIdle
    /\ SaveIdle
    /\ BatchIdle
    /\ adapter_call \in [api : ApiSet, ticker : Tickers,
                         max_articles : 0..MaxArticles, hasKey : BOOLEAN]
    /\ adapter_outcome = <<>>

\* what the call does for the answer `resp`
Fetched(resp) ==
    /\ adapter_outcome' =
          [resp |-> resp,
           requested |-> AdapterRequests(adapter_call.hasKey),
           raised |-> AdapterRaises(adapter_call.hasKey, resp),
           news |-> IF AdapterRaises(adapter_call.hasKey, resp) THEN <<>>
                    ELSE ApiFunc(adapter_call.api, adapter_call.ticker,
                                 adapter_call.max_articles,
                                 IF adapter_call.hasKey
                                 THEN {adapter_call.api} ELSE {}, resp)]
    /\ pc' = "fetched"
    /\ UNCHANGED <<aggVars, scoreVars, saveVars, batchVars, adapter_call>>

\* the adapter has no API key: it returns [] at once
AdapterSkips ==
    /\ pc = "fetch"
    /\ ~adapter_call.hasKey
    /\ Fetched(NoResponse)

\* the adapter sends its request and handles the answer
AdapterFetches ==
    /\ pc = "fetch"
    /\ adapter_call.hasKey
    /\ \E resp \in Responses : Fetched(resp)

NextAdapter == AdapterSkips \/ AdapterFetches

SpecAdapter == InitAdapter /\ [][NextAdapter]_vars

(***************************************************************************)
(* Specification of one call of get_financial_news_fast.                   *)
(***************************************************************************)
InitAgg ==
    /\ pc = "loop"
    /\ api_keys \in SUBSET ApiSet
    /\ ticker = "AAPL"
    /\ max_articles \in 0..MaxArticles
    /\ idx = 1
    /\ all_news = <<>>
    /\ unique_news = <<>>
    /\ result = <<>>
    /\ calls = <<>>
    /\ ScoreIdle
    /\ AdapterIdle
    /\ SaveIdle
    /\ BatchIdle

\* what follows the body of the loop for the response `resp`
AfterTry(resp) ==
    LET api == ApiNames[idx]
        r == TryApi(api, ticker, max_articles, api_keys, all_news, resp)
        outcome == IF AdapterRaises(api \in api_keys, resp)
                   THEN "fault" ELSE "returned"
    IN /\ all_news' = r.all
       /\ calls' = Append(calls, [api |-> api, outcome |-> outcome,
                                  had |-> Len(all_news)])
       /\ IF r.brk \/ idx = Len(ApiNames)
          THEN /\ idx' = idx
               /\ IF DedupeRaises(r.all)
                  THEN /\ pc' = "raised"
                       /\ UNCHANGED <<unique_news, result>>
                  ELSE /\ pc' = "done"
                       /\ unique_news' = Dedupe(r.all)
                       /\ result' = ReturnNews(Dedupe(r.all), max_articles)
          ELSE /\ idx' = idx + 1
               /\ pc' = "loop"
               /\ UNCHANGED <<unique_news, result>>
       /\ UNCHANGED <<api_keys, ticker, max_articles, scoreVars, adapterVars, saveVars,
                      batchVars>>

\* the adapter returns (records, or nothing after a contained failure)
AdapterReturns ==
    /\ pc = "loop"
    /\ \E resp \in AggResponses : resp.kind # "fault" /\ AfterTry(resp)

\* the adapter raises; the aggregator's except clause contains it
AdapterFaults ==
    /\ pc = "loop"
    /\ ApiNames[idx] \in api_keys
    /\ AfterTry([kind |-> "fault", items |-> <<>>])

NextAgg == AdapterReturns \/ AdapterFaults

SpecAgg == InitAgg /\ [][NextAgg]_vars

(***************************************************************************)
(* Specification of process_news_data on an existing news file.            *)
(***************************************************************************)
InitScore ==
    /\ pc = "scoring"
    /\ AggIdle
    /\ AdapterIdle
    /\ analyzer \in {"openai", "lightweight"}
    /\ \E rows \in SeqsUpTo(FileRows, MaxRows) :
          rows # <<>> /\ df = ReadCsv(rows)
    /\ results = <<>>
    /\ scorer_calls = <<>>
    /\ ticker_sentiment = <<>>
    /\ SaveIdle
    /\ BatchIdle

\* the end of one iteration of the loop over texts; after the last text
\* the frames are joined and the per-ticker summary is computed
AppendResult(res) ==
    /\ results' = Append(results, res)
    /\ IF Len(results) + 1 = Len(df)
       THEN /\ pc' = "scored"
            /\ ticker_sentiment' = GroupByTicker(df, Append(results, res))
       ELSE /\ pc' = "scoring"
            /\ UNCHANGED ticker_sentiment
    /\ UNCHANGED <<aggVars, analyzer, df, saveVars, batchVars, adapterVars>>

\* the text the loop is at
CurrentText == FillNa(df[Len(results) + 1].title)

\* the else branch: the fixed neutral result, no call of analyze_text
SubstituteNeutral ==
    /\ pc = "scoring"
    /\ ~NeedsScoring(CurrentText)
    /\ UNCHANGED scorer_calls
    /\ AppendResult(NeutralResult)

\* LightweightSentimentAnalyzer.analyze_dataframe calls analyze_text
ScoreLightweight ==
    /\ pc = "scoring"
    /\ analyzer = "lightweight"
    /\ NeedsScoring(CurrentText)
    /\ scorer_calls' = Append(scorer_calls,
                              [row |-> Len(results) + 1, text |-> CurrentText])
    /\ AppendResult(LightweightAnalyzeText(CurrentText))

\* SentimentAnalyzer.analyze_dataframe calls analyze_text
ScoreOpenAI ==
    /\ pc = "scoring"
    /\ analyzer = "openai"
    /\ NeedsScoring(CurrentText)
    /\ scorer_calls' = Append(scorer_calls,
                              [row |-> Len(results) + 1, text |-> CurrentText])
    /\ \E reply \in ScorerReplies :
          AppendResult(OpenAIAnalyzeText(CurrentText, reply))

NextScore == SubstituteNeutral \/ ScoreLightweight \/ ScoreOpenAI

SpecScore == InitScore /\ [][NextScore]_vars

(***************************************************************************)
(* Specification of successive calls of save_news_data on one data         *)
(* directory.                                                              *)
(***************************************************************************)
\* the data directory before the first call: empty, or holding a file of
\* the first date
InitialFiles ==
    {<<>>,
     [f \in {<<1, 0>>} |->
        [header |-> TRUE, columns |-> BaseColumns,
         rows |-> WriteCsv(<<NewsRecord("MSFT", <<"Y">>, "MarketAux")>>),
         row_columns |-> <<BaseColumns>>]]}

InitSave ==
    /\ pc = "idle"
    /\ AggIdle
    /\ ScoreIdle
    /\ AdapterIdle
    /\ files \in InitialFiles
    /\ clock = <<1, 1>>
    /\ saves = <<>>
    /\ BatchIdle

\* time passes: the next minute, or the first minute of the next date
Tick ==
    /\ pc = "idle"
    /\ \/ clock[2] < MaxMinute /\ clock' = <<clock[1], clock[2] + 1>>
       \/ clock[1] < MaxDate /\ clock' = <<clock[1] + 1, 1>>
    /\ UNCHANGED <<pc, aggVars, scoreVars, adapterVars, files, saves, batchVars>>

\* save_news_data(news_data) returns
SaveNews ==
    /\ pc = "idle"
    /\ Len(saves) < MaxSaves
    /\ \E news_data \in SeqsUpTo(SaveRecords, MaxItems) :
          LET s == SaveNewsData(files, clock, news_data) IN
          /\ files' = s.files
          /\ saves' = Append(saves,
                 [at |-> clock, news_data |-> news_data, ret |-> s.ret,
                  mode |-> s.mode, ok |-> TRUE])
    /\ UNCHANGED <<pc, aggVars, scoreVars, adapterVars, clock, batchVars>>

\* save_news_data(news_data) raises out of to_csv
SaveNewsFails ==
    /\ pc = "idle"
    /\ Len(saves) < MaxSaves
    /\ \E news_data \in SeqsUpTo(SaveRecords, MaxItems) :
       \E opened \in BOOLEAN :
       \E cut \in 0..(Len(news_data) - 1) :
          /\ files' = SaveNewsDataFailing(files, clock, news_data, opened, cut)
          /\ saves' = Append(saves,
                 [at |-> clock, news_data |-> news_data, ret |-> NoFile,
                  mode |-> SaveNewsData(files, clock, news_data).mode,
                  ok |-> FALSE])
    /\ UNCHANGED <<pc, aggVars, scoreVars, adapterVars, clock, batchVars>>

NextSave == Tick \/ SaveNews \/ SaveNewsFails

SpecSave == InitSave /\ [][NextSave]_vars

(***************************************************************************)
(* Specification of one batch run.                                         *)
(***************************************************************************)
InitBatch ==
    /\ pc = "tickers"
    /\ api_keys \in BatchKeySets
    /\ ticker = "AAPL"
    /\ max_articles = 0
    /\ idx = 1
    /\ all_news = <<>>
    /\ unique_news = <<>>
    /\ result = <<>>
    /\ calls = <<>>
    /\ ScoreIdle
    /\ AdapterIdle
    /\ files \in InitialFiles
    /\ clock = <<1, 1>>
    /\ saves = <<>>
    /\ entry \in {"main", "run_pipeline"}
    /\ \E n \in 0..MaxTickers :
          /\ tickers = Take(DefaultTickers, n)
          /\ n = 0 => entry = "run_pipeline"
    /\ done_tickers = 0
    /\ batch_news = <<>>
    /\ stock_files = {}
    /\ crash = "none"
    /\ auth = [a \in ApiSet |-> "unused"]
    /\ ticker_log = <<>>
    /\ stages = <<>>

\* the ticker the loop is at
CurrentTicker == tickers[done_tickers + 1]

\* save_stock_data(ticker, data) returns: a file is written unless the
\* frame is empty
StockFilesAfter(data) ==
    IF data = "bars" THEN stock_files \cup {CurrentTicker} ELSE stock_files

\* data_collection.main, after the loop: `if all_news: save_news_data(all_news)`
MainSaves(news) ==
    IF news = <<>>
    THEN pc' = "done" /\ UNCHANGED <<files, saves, crash>>
    ELSE \/ LET s == SaveNewsData(files, clock, news) IN
            /\ files' = s.files
            /\ saves' = Append(saves,
                   [at |-> clock, news_data |-> news, ret |-> s.ret,
                    mode |-> s.mode, ok |-> TRUE])
            /\ pc' = "done"
            /\ UNCHANGED crash
         \/ \E opened \in BOOLEAN, cut \in 0..(Len(news) - 1) :
            /\ files' = SaveNewsDataFailing(files, clock, news, opened, cut)
            /\ saves' = Append(saves,
                   [at |-> clock, news_data |-> news, ret |-> NoFile,
                    mode |-> SaveNewsData(files, clock, news).mode,
                    ok |-> FALSE])
            /\ pc' = "crashed"
            /\ crash' = "save"

\* the entry of ticker_log for the ticker the loop is at
LogEntry(price, saved, news) ==
    [ticker |-> CurrentTicker, price |-> price, price_saved |-> saved,
     news |-> news]

\* data_collection.main: one iteration of the loop over tickers that
\* completes; after the last ticker the collected news is saved
MainTicker ==
    /\ pc = "tickers"
    /\ entry = "main"
    /\ \E n \in {GetFinancialNewsFast(CurrentTicker, MainMaxArticles, api_keys,
                                      resps) : resps \in AnswersTo(api_keys)} :
       \E outcome \in StockOutcomes :
          LET data == GetStockData(outcome) IN
             /\ ~n.raised
             /\ stock_files' = StockFilesAfter(data)
             /\ batch_news' = batch_news \o n.news
             /\ auth' = AuthAfter(auth, n)
             /\ ticker_log' = Append(ticker_log,
                    LogEntry(outcome, data = "bars", "returned"))
             /\ done_tickers' = done_tickers + 1
             /\ IF done_tickers + 1 = Len(tickers)
                THEN MainSaves(batch_news \o n.news)
                ELSE pc' = "tickers" /\ UNCHANGED <<files, saves, crash>>
    /\ UNCHANGED <<aggVars, scoreVars, adapterVars, clock, entry, tickers,
                   stages>>

\* data_collection.main: an iteration that raises, out of to_csv in
\* save_stock_data or out of get_financial_news_fast; nothing catches it
MainTickerRaises ==
    /\ pc = "tickers"
    /\ entry = "main"
    /\ \/ /\ ticker_log' = Append(ticker_log,
                 LogEntry("bars", FALSE, "not_run"))
          /\ UNCHANGED <<stock_files, auth>>
       \/ \E n \in {GetFinancialNewsFast(CurrentTicker, MainMaxArticles, api_keys,
                                         resps) : resps \in AnswersTo(api_keys)} :
          \E outcome \in StockOutcomes :
             /\ n.raised
             /\ stock_files' = StockFilesAfter(GetStockData(outcome))
             /\ auth' = AuthAfter(auth, n)
             /\ ticker_log' = Append(ticker_log,
                    LogEntry(outcome, GetStockData(outcome) = "bars", "raised"))
    /\ pc' = "crashed"
    /\ crash' = "ticker"
    /\ UNCHANGED <<aggVars, scoreVars, adapterVars, saveVars, entry, tickers,
                   done_tickers, batch_news, stages>>

\* main.run_pipeline: the iteration raises, out of to_csv in
\* save_stock_data or at data_collection.get_financial_news, a name that
\* data_collection does not define; nothing catches it
RunPipelineTickerRaises ==
    /\ pc = "tickers"
    /\ entry = "run_pipeline"
    /\ done_tickers < Len(tickers)
    /\ \/ /\ ticker_log' = Append(ticker_log,
                 LogEntry("bars", FALSE, "not_run"))
          /\ UNCHANGED stock_files
       \/ \E outcome \in StockOutcomes :
             /\ stock_files' = StockFilesAfter(GetStockData(outcome))
             /\ ticker_log' = Append(ticker_log,
                    LogEntry(outcome, GetStockData(outcome) = "bars", "raised"))
    /\ pc' = "crashed"
    /\ crash' = "ticker"
    /\ UNCHANGED <<aggVars, scoreVars, adapterVars, saveVars, entry, tickers,
                   done_tickers, batch_news, auth, stages>>

\* main.run_pipeline after the save: `if not news_file: return`, else the
\* sentiment stage and then the visualization stage
StagesAfterSave(news_file) ==
    IF news_file = NoFile THEN <<>> ELSE <<"sentiment", "visualization">>

\* main.run_pipeline after the loop over tickers: save_news_data(all_news)
\* is called whatever was collected, and the stages follow its result
RunPipelineSaves ==
    /\ pc = "tickers"
    /\ entry = "run_pipeline"
    /\ done_tickers = Len(tickers)
    /\ \/ LET s == SaveNewsData(files, clock, batch_news) IN
          /\ files' = s.files
          /\ saves' = Append(saves,
                 [at |-> clock, news_data |-> batch_news, ret |-> s.ret,
                  mode |-> s.mode, ok |-> TRUE])
          /\ stages' = StagesAfterSave(s.ret)
          /\ pc' = "done"
          /\ UNCHANGED crash
       \/ /\ batch_news # <<>>
          /\ \E opened \in BOOLEAN, cut \in 0..(Len(batch_news) - 1) :
                files' = SaveNewsDataFailing(files, clock, batch_news,
                                             opened, cut)
          /\ saves' = Append(saves,
                 [at |-> clock, news_data |-> batch_news, ret |-> NoFile,
                  mode |-> SaveNewsData(files, clock, batch_news).mode,
                  ok |-> FALSE])
          /\ pc' = "crashed"
          /\ crash' = "save"
          /\ UNCHANGED stages
    /\ UNCHANGED <<aggVars, scoreVars, adapterVars, clock, entry, tickers,
                   done_tickers, batch_news, stock_files, auth, ticker_log>>

\* the exit status of `python data_collection.py` and `python main.py`:
\* 0 when the entry point returns, 1 when an exception leaves it; neither
\* script calls sys.exit
ExitStatus == IF pc = "crashed" THEN 1 ELSE 0

NextBatch ==
    MainTicker \/ MainTickerRaises \/ RunPipelineTickerRaises
       \/ RunPipelineSaves

SpecBatch == InitBatch /\ [][NextBatch]_vars

(***************************************************************************)
(* Properties of get_financial_news_fast.                                  *)
(***************************************************************************)
\* the dedup key of a record: (ticker, lowercase + trim of title)
DedupKey(r) == <<r.ticker, NormalizeTitle(r.title)>>

\* positions of `all` holding the first record of their dedup key
FirstPositions(all) ==
    {k \in 1..Len(all) : \A j \in 1..(k - 1) : DedupKey(all[j]) # DedupKey(all[k])}

\* `out` is exactly the records of `all` at the positions P, in their order
IsSelection(out, all, P) ==
    /\ Len(out) = Cardinality(P)
    /\ \A k \in P : out[Cardinality({j \in P : j <= k})] = all[k]

\* C1: get_financial_news_fast returns at most max_articles records,
\* whatever the adapters returned.
CapHonored == pc = "done" => Len(result) <= max_articles

\* C1 witness: an adapter returned more than asked, more than max_articles
\* distinct records were available, and exactly max_articles were returned.
CapHonoredWitness ==
    /\ pc = "done"
    /\ max_articles > 0
    /\ Len(all_news) - calls[Len(calls)].had > max_articles
    /\ Len(unique_news) > max_articles
    /\ Len(result) = max_articles

\* C2 as stated: the dedup output holds, for every dedup key present in
\* the accumulated records, exactly the first record with that key, in
\* accumulated order.
DedupKeepsFirstOfEveryKey ==
    pc = "done" => IsSelection(unique_news, all_news, FirstPositions(all_news))

\* C2 amended: the same for every dedup key whose normalized title is not
\* empty; records whose normalized title is empty are dropped.
DedupKeepsFirstOfNonEmptyKey ==
    pc = "done" =>
        IsSelection(unique_news, all_news,
            {k \in FirstPositions(all_news) :
                NormalizeTitle(all_news[k].title) # <<>>})

\* C2 witness: the example A = ["X"], B = ["x", "Y"] gives [X from A, Y from B].
DedupExampleWitness ==
    /\ pc = "done"
    /\ Len(all_news) = 3
    /\ all_news[1] = NewsRecord(ticker, <<"X">>, "Finnhub")
    /\ all_news[2] = NewsRecord(ticker, <<"x">>, "Alpha Vantage")
    /\ all_news[3] = NewsRecord(ticker, <<"Y">>, "Alpha Vantage")
    /\ result = <<all_news[1], all_news[3]>>

\* C3: the dedup step applied to its own output changes nothing.
DedupIdempotent == pc = "done" => Dedupe(unique_news) = unique_news

\* C3 witness: a dedup that dropped a duplicate and kept two records.
DedupIdempotentWitness ==
    /\ pc = "done"
    /\ Len(unique_news) = 2
    /\ Len(all_news) = 3
    /\ \A k \in 1..3 : NormalizeTitle(all_news[k].title) # <<>>

\* the step is an adapter call that raised
FaultStep ==
    /\ pc = "loop"
    /\ Len(calls') = Len(calls) + 1
    /\ calls'[Len(calls')].outcome = "fault"

\* C4: an adapter call that raises is contained: the accumulated records
\* are unchanged, the next adapter is tried, and after the last adapter
\* the call ends as it does when that adapter returns nothing.
FaultContained ==
    [][FaultStep =>
        /\ all_news' = all_news
        /\ IF idx < Len(ApiNames)
           THEN pc' = "loop" /\ idx' = idx + 1
           ELSE \/ /\ pc' = "done"
                   /\ result' = ReturnNews(Dedupe(all_news), max_articles)
                \/ pc' = "raised" /\ DedupeRaises(all_news)]_vars

\* C4 witness: a call that returned records collected before and after an
\* adapter that raised.
FaultContainedWitness ==
    /\ pc = "done"
    /\ \E k \in 1..Len(calls) :
          /\ calls[k].outcome = "fault"
          /\ calls[k].had > 0
          /\ Len(all_news) > calls[k].had
          /\ Len(result) = Len(all_news)

(***************************************************************************)
(* Properties of analyze_dataframe and process_news_data.                  *)
(***************************************************************************)
\* a title that is missing, empty or made of whitespace only
IsBlankTitle(t) == t = NaN \/ \A k \in 1..Len(t) : t[k] = " "

\* C5: every scored record whose title is missing, empty or whitespace-only
\* has the neutral triple, and analyze_text was not called for it.
BlankTitleNeutral ==
    \A k \in 1..Len(results) :
        IsBlankTitle(df[k].title) =>
            /\ results[k].sentiment = "neutral"
            /\ results[k].confidence = 0
            /\ results[k].sentiment_score = 0
            /\ \A c \in 1..Len(scorer_calls) : scorer_calls[c].row # k

\* C5 witness: a frame with a whitespace-only title, a missing title and a
\* headline, scored by the analyzer that calls the remote service: one call.
BlankTitleNeutralWitness ==
    /\ pc = "scored"
    /\ analyzer = "openai"
    /\ Len(df) = 3
    /\ df[1].title = <<" ">>
    /\ df[2].title = NaN
    /\ df[3].title = <<"growth">>
    /\ scorer_calls = <<[row |-> 3, text |-> <<"growth">>]>>
    /\ results[3].sentiment_score # 0

\* C6: per ticker, the summary's mean is the arithmetic mean of the scores
\* of all scored records of the ticker, and article_count is their number.
SummaryCountsAllRecords ==
    pc = "scored" =>
        \A t \in {df[k].ticker : k \in 1..Len(df)} :
            LET rowsOf == {k \in 1..Len(df) : df[k].ticker = t} IN
            /\ t \in DOMAIN ticker_sentiment
            /\ ticker_sentiment[t].score_sum * Cardinality(rowsOf)
                 = SumScores(results, rowsOf) * ticker_sentiment[t].score_count
            /\ ticker_sentiment[t].article_count = Cardinality(rowsOf)

(***************************************************************************)
(* Properties of save_news_data.                                           *)
(***************************************************************************)
\* the calls that wrote records and returned
GoodSaves == {k \in 1..Len(saves) : saves[k].ok /\ saves[k].news_data # <<>>}

\* C8: of the non-empty saves made on one date, the first creates the
\* date's file and every later one appends to that same file.
SameDateSavesAppend ==
    \A i, j \in GoodSaves :
        (i < j /\ saves[i].at[1] = saves[j].at[1]) =>
            /\ saves[j].mode = "a"
            /\ saves[j].ret = saves[i].ret

\* C9: every record written by a save that returned is still in the file
\* it was written to.
SavedRecordsKept ==
    \A k \in GoodSaves :
        /\ saves[k].ret \in DOMAIN files
        /\ \A r \in 1..Len(saves[k].news_data) :
              \E q \in 1..Len(files[saves[k].ret].rows) :
                  files[saves[k].ret].rows[q] = WriteCsv(saves[k].news_data)[r]

\* the key of a row read back from a file
LoadedKey(r) ==
    <<r.ticker, IF r.title = NaN THEN NaN ELSE NormalizeTitle(r.title)>>

\* C10: right after a save returned, reloading the returned file gives the
\* keys (ticker, lowercase + trim of title) that were written: exactly
\* those for a file the call created, at least those for a file the call
\* appended to.
RoundTripKeys ==
    (saves # <<>> /\ Len(saves) \in GoodSaves) =>
        LET s == saves[Len(saves)]
            loaded == ReadCsv(files[s.ret].rows)
            loadedKeys == {LoadedKey(loaded[k]) : k \in 1..Len(loaded)}
            writtenKeys == {DedupKey(s.news_data[k]) : k \in 1..Len(s.news_data)}
        IN IF s.mode = "w" THEN loadedKeys = writtenKeys
           ELSE writtenKeys \subseteq loadedKeys

(***************************************************************************)
(* Properties of the batch entry points.                                   *)
(***************************************************************************)
\* C7: a batch run ends with every ticker of the list processed or
\* skipped after its failure, never by the exception of one ticker, and
\* with the records of the tickers that succeeded persisted.
BatchSurvivesTickerFailure ==
    pc \in {"done", "crashed"} =>
        /\ crash # "ticker"
        /\ crash = "none" =>
              /\ done_tickers = Len(tickers)
              /\ batch_news # <<>> =>
                    /\ saves # <<>>
                    /\ saves[Len(saves)].news_data = batch_news
                    /\ saves[Len(saves)].ret \in DOMAIN files

(***************************************************************************)
(* Properties of the adapters.                                             *)
(***************************************************************************)
\* the items of the answer that the adapter maps
ItemsRead ==
    IF adapter_call.api = "Finnhub"
    THEN Take(adapter_outcome.resp.items, adapter_call.max_articles)
    ELSE adapter_outcome.resp.items

\* C11: an adapter returns an empty sequence and does not raise when the
\* request fails (network error, timeout, HTTP error status), when the
\* body is not JSON, when the payload has no item to read or an item that
\* is not an object, and when the API key is missing.
AdapterNeverRaises ==
    (pc = "fetched"
       /\ \/ ~adapter_call.hasKey
          \/ adapter_outcome.resp.kind \in FailureKinds
          \/ /\ adapter_outcome.resp.kind = "ok"
             /\ \/ ItemsRead = <<>>
                \/ \E k \in 1..Len(ItemsRead) : ~IsMappable(ItemsRead[k]))
    => ~adapter_outcome.raised /\ adapter_outcome.news = <<>>

\* C11 witness: an adapter with its key that met a timeout and returned.
AdapterNeverRaisesWitness ==
    /\ pc = "fetched"
    /\ adapter_call.hasKey
    /\ adapter_outcome.resp.kind = "timeout"
    /\ adapter_outcome.requested
    /\ adapter_outcome.news = <<>>

\* C19: the adapter returns the record of every item of the answer that
\* maps; an item that does not map is the only one dropped.
MalformedItemDroppedAlone ==
    (pc = "fetched" /\ adapter_call.hasKey /\ adapter_outcome.resp.kind = "ok")
    => adapter_outcome.news =
          MapItems(adapter_call.api, adapter_call.ticker,
                   SelectSeq(ItemsRead, IsMappable))

(***************************************************************************)
(* Properties of the loop over the adapters.                               *)
(***************************************************************************)
\* C18 as stated: get_financial_news_fast calls the adapters in the order
\* Finnhub, Alpha Vantage, MarketAux, EODHD, each at most once, an adapter
\* only while the records accumulated before it number fewer than
\* max_articles, and none once the count has reached max_articles.
AdaptersCalledWhileBelowCap ==
    /\ Len(calls) <= Len(ApiNames)
    /\ \A k \in 1..Len(calls) :
          /\ calls[k].api = ApiNames[k]
          /\ calls[k].had < max_articles

\* C18 amended: the same holds for max_articles >= 1.
AdaptersCalledWhileBelowPositiveCap ==
    max_articles >= 1 => AdaptersCalledWhileBelowCap

\* C18 witness: the second adapter was called with records accumulated
\* and filled the accumulator to the cap, which ended the loop.
AdaptersCalledWitness ==
    /\ pc = "done"
    /\ max_articles >= 1
    /\ Len(calls) = 2
    /\ calls[2].had > 0
    /\ Len(all_news) >= max_articles

\* C20: no record returned by get_financial_news_fast has an empty or
\* whitespace-only title, no two returned records have the same
\* lowercase+trimmed title, and the returned records are accumulated ones.
ReturnedTitlesDistinctNonBlank ==
    pc = "done" =>
       /\ \A k \in 1..Len(result) : NormalizeTitle(result[k].title) # <<>>
       /\ \A j, k \in 1..Len(result) :
             j # k => NormalizeTitle(result[j].title)
                         # NormalizeTitle(result[k].title)
       /\ \A k \in 1..Len(result) :
             \E j \in 1..Len(all_news) : all_news[j] = result[k]

\* C20 witness: the adapters supplied a record with a blank title and two
\* records with the same normalized title, and a record was returned.
ReturnedTitlesWitness ==
    /\ pc = "done"
    /\ \E k \in 1..Len(all_news) : NormalizeTitle(all_news[k].title) = <<>>
    /\ \E j, k \in 1..Len(all_news) :
          /\ j # k
          /\ NormalizeTitle(all_news[j].title)
                = NormalizeTitle(all_news[k].title)
          /\ NormalizeTitle(all_news[j].title) # <<>>
    /\ result # <<>>

(***************************************************************************)
(* Properties of the sentiment fields.                                     *)
(***************************************************************************)
ScoreFields == {"sentiment", "confidence", "sentiment_score"}

\* the records of the pipeline: the loaded frame while the texts are
\* scored, result_df once analyze_dataframe has returned
PipelineFrame == IF pc = "scored" THEN ConcatResults(df, results) ELSE df

\* a record or result has sentiment_score iff it has sentiment and confidence
HasAllOrNone(r) ==
    "sentiment_score" \in DOMAIN r
       <=> ("sentiment" \in DOMAIN r /\ "confidence" \in DOMAIN r)

\* the text analyze_dataframe stores with the result of a title cell
ScoredText(title) ==
    IF NeedsScoring(FillNa(title)) THEN FillNa(title) ELSE <<>>

\* C15: in every state a record has sentiment_score iff it has sentiment
\* and confidence; no record has any of the three before analyze_dataframe
\* returns; afterwards every input record has all three, with one result
\* per input record in the order of the input.
ScoringAtomic ==
    LET frame == PipelineFrame IN
    /\ Len(frame) = Len(df)
    /\ \A k \in 1..Len(df) : HasAllOrNone(frame[k])
    /\ \A k \in 1..Len(results) : HasAllOrNone(results[k])
    /\ pc = "scoring" =>
          /\ Len(results) < Len(df)
          /\ \A k \in 1..Len(df) : DOMAIN frame[k] \cap ScoreFields = {}
    /\ pc = "scored" =>
          /\ Len(results) = Len(df)
          /\ \A k \in 1..Len(df) :
                LET row == frame[k] IN
                /\ ScoreFields \subseteq DOMAIN row
                /\ row.ticker = df[k].ticker
                /\ row.title = df[k].title
                /\ results[k].text = ScoredText(df[k].title)
                /\ \A c \in ScoreFields : row[c] = results[k][c]

\* C15 witness: a scored frame of MaxRows records, some scored by the
\* analyzer and some given the fixed neutral result.
ScoringAtomicWitness ==
    /\ pc = "scored"
    /\ Len(df) = MaxRows
    /\ scorer_calls # <<>>
    /\ Len(scorer_calls) < Len(df)
    /\ \A k \in 1..Len(df) : ScoreFields \subseteq DOMAIN PipelineFrame[k]

\* C16: every sentiment triple attached to a record has sentiment in
\* {positive, neutral, negative}, confidence in [0, 1] and sentiment_score
\* in [-1, 1] (in tenths: 0..10 and -10..10), whatever the text and
\* whatever the scoring service answered.
TripleWithinRanges ==
    \A k \in 1..Len(results) :
       /\ results[k].sentiment \in {"positive", "neutral", "negative"}
       /\ results[k].confidence \in 0..10
       /\ results[k].sentiment_score \in (-10)..10

(***************************************************************************)
(* Properties of the columns of the news files.                            *)
(***************************************************************************)
\* C17: every news file has the columns ticker, title, summary, url,
\* published, source, retrieved_date in this order, whichever adapters
\* supplied the records, and every row of a file, appended ones included,
\* has exactly the columns of the file's header in the header's order.
ColumnsStable ==
    \A f \in DOMAIN files :
       /\ files[f].columns = BaseColumns
       /\ \A q \in 1..Len(files[f].row_columns) :
             files[f].row_columns[q] = files[f].columns

(***************************************************************************)
(* Properties of a batch run.                                              *)
(***************************************************************************)
\* C12: an adapter without its API key sends no request, and an adapter
\* whose key the provider rejected sends no request for the rest of the
\* run.
UnauthenticatedAdapterSkipped ==
    \A a \in ApiSet :
       /\ a \notin api_keys => auth[a] = "unused"
       /\ auth[a] # "retried"

\* C13: a ticker whose price fetch failed still has its news collected,
\* and a ticker whose news collection failed has its price data saved and
\* is completed, the run going on.
SubFetchFailuresIsolated ==
    \A k \in 1..Len(ticker_log) :
       /\ ticker_log[k].price = "error" => ticker_log[k].news # "not_run"
       /\ ticker_log[k].news = "raised" =>
             /\ ticker_log[k].price = "bars" => ticker_log[k].price_saved
             /\ k <= done_tickers
             /\ crash # "ticker"

\* the news records of some ticker are in a file
NewsPersisted ==
    \E k \in 1..Len(saves) : saves[k].ok /\ saves[k].news_data # <<>>

\* C14: a finished batch run exits with status 0 exactly when the records
\* of at least one ticker were persisted.
ExitStatusTellsPersistence ==
    pc \in {"done", "crashed"} => (ExitStatus = 0 <=> NewsPersisted)

\* C21: a run of run_pipeline calls save_news_data once, after every
\* ticker of the list was processed; the sentiment and visualization
\* stages are entered only after save_news_data returned a file; when no
\* news record was collected, save_news_data writes no file and returns
\* None, and neither stage is entered.
RunPipelinePersistsOnceAtEnd ==
    (entry = "run_pipeline" /\ pc \in {"done", "crashed"}) =>
       /\ Len(saves) = 1
       /\ done_tickers = Len(tickers)
       /\ stages # <<>> =>
             /\ saves[1].ret # NoFile
             /\ saves[1].ret \in DOMAIN files
       /\ batch_news = <<>> =>
             /\ saves[1].ret = NoFile
             /\ files \in InitialFiles
             /\ stages = <<>>

=============================================================================
